---- MODULE Spec2Model ----
(***************************************************************************)
(* A model of tts_infer.py: the command-line driver that parses its flags, *)
(* creates the output directory, loads the vocoder, resolves and loads the *)
(* model configuration, loads the model, preprocesses the reference,       *)
(* runs inference, writes the audio and optionally removes silence.        *)
(*                                                                         *)
(* Text whose structure matters (the two output paths) is a sequence of    *)
(* chunks: the chunk "/" is the path separator, the chunk "." is a single  *)
(* period, and every other chunk is a run of characters holding no         *)
(* separator.  All other text is a TLA+ string.  A Python float is         *)
(* written by its repr ("1.0"), an int by its value.                       *)
(***************************************************************************)
EXTENDS Integers, Sequences, FiniteSets, TLC

VARIABLES
    pc,             \* position of main(): the step that runs next
    argv,           \* the command line: supplied flag -> its text
    args,           \* the namespace parse_args returned
    dirs,           \* directories that exist
    files,          \* files written by the run
    cfgEnv,         \* what config resolution found in the environment
    output_dir,     \* local: Path(args.output_dir)
    wave_path,      \* local: output_dir / args.output_file
    vocoder,        \* local: what load_vocoder returned
    model_cfg_path, \* local: where the model configuration is read from
    model_cfg,      \* local: OmegaConf.load(model_cfg_path).model
    model_cls,      \* local: the backbone class
    ema_model,      \* local: what load_model returned
    ref,            \* local: (ref_audio, ref_text) after preprocessing
    audio,          \* local: (audio_segment, final_sample_rate, spectrogram)
    calls,          \* the calls made outside the script, in order
    stdout,         \* the lines printed, in order
    error           \* the exception that ended the run, if any

vars == <<pc, argv, args, dirs, files, cfgEnv, output_dir, wave_path, vocoder,
          model_cfg_path, model_cfg, model_cls, ema_model, ref, audio,
          calls, stdout, error>>

(***************************************************************************)
(* Bounds of the model.                                                    *)
(***************************************************************************)
\* the most flags a command line of Init supplies
MaxFlags == 2
\* the longest --output_dir / --output_file text of InitOut, in chunks
MaxPathLen == 2

(***************************************************************************)
(* Module constants (tts_infer.py lines 22-44).                            *)
(***************************************************************************)
MODEL == "F5TTS_Base"
VOCAB_FILE == "model/vocab.txt"
CKPT_FILE == "model/model_500000.pt"
VOCODER_NAME == "vocos"
REF_AUDIO == "voice_samples/huong_giang_4.wav"
\* the two texts are written without their diacritics
REF_TEXT == "Bay gio anh phai cho em mot cai hen voi chi chu con biet lam sao nua a Em bao roi ro rang la quyen loi cua nha minh nay Di ca phe thi em moi nuoc Ma anh chi cu so nhu kieu la em gap anh chi de em an thit Anh chi khong bang y."
GEN_TEXT == "Khong biet can ho nha minh o Home City cua anh chi co nhu cau ban hoac cho thue khong a?"
SPEED == "1.0"
OUTPUT_DIR == <<"outputs">>
OUTPUT_FILE == <<"synthesized_speech_huong_giang_4.wav">>
DEFAULT_NFE_STEP == 32
DEFAULT_CFG_STRENGTH == "2.0"
DEFAULT_TARGET_RMS == "0.1"
DEFAULT_CROSS_FADE_DURATION == "0.15"
DEFAULT_SWAY_SAMPLING_COEF == "-1.0"

\* a local that has not been assigned
Unbound == [unbound |-> TRUE]

(***************************************************************************)
(* pathlib: Path(text), Path / text, str(Path), Path.mkdir.                *)
(***************************************************************************)
Sep == "/"
Dot == "."

\* the number of separators text begins with
RECURSIVE LeadingSeps(_)
LeadingSeps(text) ==
    IF text = <<>> \/ Head(text) # Sep THEN 0 ELSE 1 + LeadingSeps(Tail(text))

\* posixpath.splitroot: exactly two leading separators are kept as "//",
\* any other number of them is the root "/"
RootOf(text) ==
    LET n == LeadingSeps(text)
    IN  IF n = 0 THEN <<>> ELSE IF n = 2 THEN <<Sep, Sep>> ELSE <<Sep>>

\* text split at its separators: the components, empty ones included
RECURSIVE SplitSep(_, _)
SplitSep(text, cur) ==
    IF text = <<>> THEN <<cur>>
    ELSE IF Head(text) = Sep THEN <<cur>> \o SplitSep(Tail(text), <<>>)
    ELSE SplitSep(Tail(text), Append(cur, Head(text)))

\* the components pathlib keeps: neither empty nor "."
KeptParts(comps) == SelectSeq(comps, LAMBDA c : c # <<>> /\ c # <<Dot>>)

\* Path(text)
ParsePath(text) == [root |-> RootOf(text), parts |-> KeptParts(SplitSep(text, <<>>))]

\* the components joined by separators
RECURSIVE JoinParts(_)
JoinParts(parts) ==
    IF parts = <<>> THEN <<>>
    ELSE IF Len(parts) = 1 THEN parts[1]
    ELSE parts[1] \o <<Sep>> \o JoinParts(Tail(parts))

\* str(path)
PathStr(p) ==
    IF p.root = <<>> /\ p.parts = <<>> THEN <<Dot>> ELSE p.root \o JoinParts(p.parts)

\* a join that keeps only its right-hand side
PathJoinDropsLeft(p, text) == ParsePath(text)

\* path / text: an absolute right-hand side replaces the left-hand side
PathJoin(p, text) ==
    LET q == ParsePath(text)
    IN  IF q.root # <<>> THEN q ELSE [root |-> p.root, parts |-> p.parts \o q.parts]

\* mkdir without parents=True
AncestorsSelfOnly(p) == {p}

\* the path and its ancestors up to the root (or the current directory)
Ancestors(p) == {[root |-> p.root, parts |-> SubSeq(p.parts, 1, k)] : k \in 0..Len(p.parts)}

\* the ancestors of the path at most k components deep: what mkdir with
\* parents=True, which makes the missing directories from the top down, has
\* made when it raises below depth k
AncestorsTo(p, k) == {[root |-> p.root, parts |-> SubSeq(p.parts, 1, j)] : j \in 0..k}

\* the directories that exist before the run: the current one and the roots
InitialDirs == {ParsePath(<<>>), ParsePath(<<Sep>>), ParsePath(<<Sep, Sep>>)}

(***************************************************************************)
(* argparse: the flags, their defaults, their types (lines 48-72).         *)
(***************************************************************************)
StrFlags == {"model", "ref_audio", "ref_text", "gen_text", "vocab_file", "ckpt_file",
             "output_file", "output_dir"}
FloatFlags == {"speed", "cfg_strength", "target_rms", "cross_fade_duration",
               "sway_sampling_coef"}
IntFlags == {"nfe_step"}
ChoiceFlags == {"vocoder_name"}
SwitchFlags == {"remove_silence"}
Flags == StrFlags \cup FloatFlags \cup IntFlags \cup ChoiceFlags \cup SwitchFlags

\* choices=[...] of --vocoder_name
VocoderChoices == {"vocos", "bigvgan"}

\* default=... of each add_argument; a store_true flag defaults to False
Default(f) ==
    CASE f = "model" -> MODEL
      [] f = "ref_audio" -> REF_AUDIO
      [] f = "ref_text" -> REF_TEXT
      [] f = "gen_text" -> GEN_TEXT
      [] f = "speed" -> SPEED
      [] f = "vocoder_name" -> VOCODER_NAME
      [] f = "vocab_file" -> VOCAB_FILE
      [] f = "ckpt_file" -> CKPT_FILE
      [] f = "output_file" -> OUTPUT_FILE
      [] f = "output_dir" -> OUTPUT_DIR
      [] f = "nfe_step" -> DEFAULT_NFE_STEP
      [] f = "cfg_strength" -> DEFAULT_CFG_STRENGTH
      [] f = "target_rms" -> DEFAULT_TARGET_RMS
      [] f = "cross_fade_duration" -> DEFAULT_CROSS_FADE_DURATION
      [] f = "sway_sampling_coef" -> DEFAULT_SWAY_SAMPLING_COEF
      [] f = "remove_silence" -> FALSE

\* float(text) on the texts the model supplies: the repr of the value, and
\* the texts float() raises ValueError on
FloatTexts == {"1", "1.5", "3", "0.2", "0.3", "-0.5"}
FloatOf(text) ==
    CASE text = "1" -> "1.0"
      [] text = "3" -> "3.0"
      [] text \in {"1.5", "0.2", "0.3", "-0.5"} -> text

\* int(text) on the texts the model supplies
IntTexts == {"16"}
IntOf(text) == CASE text = "16" -> 16

\* argparse without choices=[...]
AcceptsAnyChoice(f, text) ==
    CASE f \in FloatFlags -> text \in FloatTexts
      [] f \in IntFlags -> text \in IntTexts
      [] OTHER -> TRUE

\* whether argparse accepts text as the value of flag f: the type conversion
\* succeeds and the value is among the choices
Accepts(f, text) ==
    CASE f \in FloatFlags -> text \in FloatTexts
      [] f \in IntFlags -> text \in IntTexts
      [] f \in ChoiceFlags -> text \in VocoderChoices
      [] OTHER -> TRUE

\* the value argparse stores for an accepted text
Converted(f, text) ==
    CASE f \in FloatFlags -> FloatOf(text)
      [] f \in IntFlags -> IntOf(text)
      [] f \in SwitchFlags -> TRUE
      [] OTHER -> text

\* a namespace in which --vocab_file is stored under ckpt_file as well
NamespaceSharedDest(line) ==
    [f \in Flags |->
        IF f = "ckpt_file" /\ "vocab_file" \in DOMAIN line THEN line["vocab_file"]
        ELSE IF f \in DOMAIN line THEN Converted(f, line[f]) ELSE Default(f)]

\* the namespace parse_args returns for an accepted command line
Namespace(line) ==
    [f \in Flags |-> IF f \in DOMAIN line THEN Converted(f, line[f]) ELSE Default(f)]

(***************************************************************************)
(* The command lines the model runs.                                       *)
(***************************************************************************)
\* the texts a command line of Init gives to flag f
SampleTexts(f) ==
    CASE f = "model" -> {"F5TTS_Small", "E2TTS_Base"}
      [] f = "ref_audio" -> {"voice_samples/other.wav"}
      [] f = "ref_text" -> {"Xin chao"}
      [] f = "gen_text" -> {"Tam biet"}
      [] f = "speed" -> {"1", "1.5", "fast"}
      [] f = "vocoder_name" -> {"vocos", "bigvgan", "hifigan"}
      [] f = "vocab_file" -> {"model/vocab_v2.txt"}
      [] f = "ckpt_file" -> {"model/model_last.pt"}
      [] f = "output_file" -> {<<"out.wav">>, <<Sep, "tmp", Sep, "out.wav">>}
      [] f = "output_dir" -> {<<Dot>>, <<"runs", Sep, "day1">>}
      [] f = "nfe_step" -> {"16", "1.5"}
      [] f = "cfg_strength" -> {"3"}
      [] f = "target_rms" -> {"0.2"}
      [] f = "cross_fade_duration" -> {"0.3"}
      [] f = "sway_sampling_coef" -> {"-0.5"}
      [] f = "remove_silence" -> {""}

\* every text of at most MaxPathLen chunks over the separator, the period
\* and one letter
PathChunks == {Sep, Dot, "a"}
PathTexts == UNION {[1..n -> PathChunks] : n \in 0..MaxPathLen}
OutputTexts(f) == IF f \in {"output_dir", "output_file"} THEN PathTexts ELSE {""}

\* the command lines that supply exactly the flags of S, each with one of
\* its sample texts, or, when short, with any short path text
RECURSIVE LinesOver(_, _)
LinesOver(S, short) ==
    IF S = {} THEN {<<>>}
    ELSE LET f == CHOOSE x \in S : TRUE
         IN  {(f :> t) @@ line : t \in IF short THEN OutputTexts(f) ELSE SampleTexts(f),
                                 line \in LinesOver(S \ {f}, short)}

\* at most MaxFlags flags, each with a sample text
CommandLines ==
    UNION {LinesOver(S, FALSE) : S \in {T \in SUBSET Flags : Cardinality(T) <= MaxFlags}}

\* any of --output_dir, --output_file and --remove_silence, the paths
\* ranging over every short text
OutputCommandLines ==
    UNION {LinesOver(S, TRUE) : S \in SUBSET {"output_dir", "output_file", "remove_silence"}}

(***************************************************************************)
(* The run.                                                                *)
(***************************************************************************)
NoError == [type |-> "none", at |-> "", msg |-> <<>>]
Raised == [raised |-> TRUE]
None == [none |-> TRUE]

\* an object an outside call returns, known by the call that made it
Handle(kind) == [obj |-> kind, call |-> Len(calls) + 1]

\* one call made outside the script
Call(fn, params, ret) == [fn |-> fn, args |-> params, ret |-> ret]

\* what an outside call does: it returns or it raises
Outcomes == {"returns", "raises"}

\* an exception that is swallowed: the run reports success
AbortSwallowed(type, at, msg) ==
    /\ pc' = "done"
    /\ error' = [type |-> type, at |-> at, msg |-> msg]

\* an uncaught exception ends the run
Abort(type, at, msg) ==
    /\ pc' = "aborted"
    /\ error' = [type |-> type, at |-> at, msg |-> msg]

\* the order of section 2 of the specification: the configuration path is
\* resolved before the vocoder is loaded
AfterConfigFirst(step) ==
    CASE step = "parse_args" -> "mkdir"
      [] step = "mkdir" -> "resolve_cfg"
      [] step = "resolve_cfg" -> "load_vocoder"
      [] step = "load_vocoder" -> "load_cfg"
      [] step = "load_cfg" -> "select_backbone"
      [] step = "select_backbone" -> "load_model"
      [] step = "load_model" -> "preprocess"
      [] step = "preprocess" -> "infer"
      [] step = "infer" -> "write"

\* the step main() runs after a step that returned (lines 72-141)
After(step) ==
    CASE step = "parse_args" -> "mkdir"
      [] step = "mkdir" -> "load_vocoder"
      [] step = "load_vocoder" -> "resolve_cfg"
      [] step = "resolve_cfg" -> "load_cfg"
      [] step = "load_cfg" -> "select_backbone"
      [] step = "select_backbone" -> "load_model"
      [] step = "load_model" -> "preprocess"
      [] step = "preprocess" -> "infer"
      [] step = "infer" -> "write"

\* an if that does not look at the flag
AfterWriteAlwaysRemoves(remove_silence) == "remove_silence"

\* line 144: silence is removed only when the flag was given
AfterWrite(remove_silence) == IF remove_silence THEN "remove_silence" ELSE "finish"

Init ==
    /\ pc = "parse_args"
    /\ argv \in CommandLines
    /\ args = Unbound
    /\ dirs = InitialDirs
    /\ files = {}
    /\ cfgEnv = Unbound
    /\ output_dir = Unbound
    /\ wave_path = Unbound
    /\ vocoder = Unbound
    /\ model_cfg_path = Unbound
    /\ model_cfg = Unbound
    /\ model_cls = Unbound
    /\ ema_model = Unbound
    /\ ref = Unbound
    /\ audio = Unbound
    /\ calls = <<>>
    /\ stdout = <<>>
    /\ error = NoError

\* lines 48-72: parse_args returns the namespace, or exits on a text it
\* does not accept
ParseArgs ==
    /\ pc = "parse_args"
    /\ IF \A f \in DOMAIN argv : Accepts(f, argv[f])
       THEN /\ args' = Namespace(argv)
            /\ pc' = After("parse_args")
            /\ error' = error
       ELSE /\ args' = args
            /\ Abort("SystemExit", "parse_args", <<>>)
    /\ UNCHANGED <<argv, dirs, files, cfgEnv, output_dir, wave_path, vocoder,
                   model_cfg_path, model_cfg, model_cls, ema_model, ref, audio,
                   calls, stdout>>

\* lines 75-77: the output directory is made with its parents; a directory
\* that exists is no error; then the output path is built.  A mkdir that
\* raises may have made some of the directories above the one it failed on
MakeOutputDir ==
    /\ pc = "mkdir"
    /\ LET d == ParsePath(args.output_dir)
           params == [path |-> d, parents |-> TRUE, exist_ok |-> TRUE]
       IN  /\ output_dir' = d
           /\ \E outcome \in Outcomes, made \in 0..Len(d.parts) :
                IF outcome = "returns" \/ d \in dirs \/ made = Len(d.parts)
                THEN /\ dirs' = dirs \cup Ancestors(d)
                     /\ calls' = Append(calls, Call("Path.mkdir", params, None))
                     /\ wave_path' = PathJoin(d, args.output_file)
                     /\ pc' = After("mkdir")
                     /\ error' = error
                ELSE /\ dirs' = dirs \cup AncestorsTo(d, made)
                     /\ calls' = Append(calls, Call("Path.mkdir", params, Raised))
                     /\ wave_path' = wave_path
                     /\ Abort("OSError", "Path.mkdir", <<>>)
    /\ UNCHANGED <<argv, args, files, cfgEnv, vocoder, model_cfg_path, model_cfg,
                   model_cls, ema_model, ref, audio, stdout>>

\* lines 80-81
LoadVocoder ==
    /\ pc = "load_vocoder"
    /\ stdout' = Append(stdout, <<"Loading vocoder: ", args.vocoder_name>>)
    /\ LET params == [vocoder_name |-> args.vocoder_name]
       IN  \E outcome \in Outcomes :
                IF outcome = "returns"
                THEN /\ vocoder' = Handle("vocoder")
                     /\ calls' = Append(calls, Call("load_vocoder", params, vocoder'))
                     /\ pc' = After("load_vocoder")
                     /\ error' = error
                ELSE /\ vocoder' = vocoder
                     /\ calls' = Append(calls, Call("load_vocoder", params, Raised))
                     /\ Abort("Exception", "load_vocoder", <<>>)
    /\ UNCHANGED <<argv, args, dirs, files, cfgEnv, output_dir, wave_path,
                   model_cfg_path, model_cfg, model_cls, ema_model, ref, audio>>

\* where a configuration file may lie
PackagePath(model) == [base |-> "f5_tts", rel |-> <<"configs/", model, ".yaml">>]
LocalPath(model) == [base |-> "", rel |-> <<"configs/", model, ".yaml">>]

\* what the try block of lines 85-87 does: it completes, or it raises one
\* of the two exceptions the except clause names
TryOutcomes == {"completes", "ImportError", "FileNotFoundError"}

\* lines 84-93: the packaged path is taken as it is when the try block
\* completes (joinpath does not look at the file system); only when the try
\* block raises is the current directory looked at
ResolveConfigPath ==
    /\ pc = "resolve_cfg"
    /\ \E try \in TryOutcomes, package \in BOOLEAN, cwd \in BOOLEAN :
        /\ cfgEnv' = [try |-> try, package |-> package, cwd |-> cwd]
        /\ IF try = "completes"
           THEN /\ model_cfg_path' = PackagePath(args.model)
                /\ calls' = calls
                /\ pc' = After("resolve_cfg")
                /\ error' = error
           ELSE /\ calls' = Append(calls, Call("os.path.exists",
                                               [path |-> LocalPath(args.model)],
                                               [value |-> cwd]))
                /\ IF cwd
                   THEN /\ model_cfg_path' = LocalPath(args.model)
                        /\ pc' = After("resolve_cfg")
                        /\ error' = error
                   ELSE /\ model_cfg_path' = None
                        /\ Abort("FileNotFoundError", "resolve_cfg",
                                 <<"Could not find model config for ", args.model>>)
    /\ UNCHANGED <<argv, args, dirs, files, output_dir, wave_path, vocoder,
                   model_cfg, model_cls, ema_model, ref, audio, stdout>>

\* whether the file at a configuration path exists
ConfigExists(path) ==
    IF path.base = "f5_tts" THEN cfgEnv.package ELSE cfgEnv.cwd

\* the backbones a configuration file may name
Backbones == {"DiT", "UNetT", "MMDiT"}

\* line 95: OmegaConf.load raises on a missing file; on a file it returns
\* the configuration, whose model section names a backbone, or it raises
LoadConfig ==
    /\ pc = "load_cfg"
    /\ LET params == [file_ |-> model_cfg_path]
       IN  \E outcome \in Outcomes, backbone \in Backbones :
                IF outcome = "returns" /\ ConfigExists(model_cfg_path)
                THEN /\ model_cfg' = [backbone |-> backbone, arch |-> Handle("arch")]
                     /\ calls' = Append(calls, Call("OmegaConf.load", params, model_cfg'))
                     /\ pc' = After("load_cfg")
                     /\ error' = error
                ELSE /\ model_cfg' = model_cfg
                     /\ calls' = Append(calls, Call("OmegaConf.load", params, Raised))
                     /\ Abort(IF ConfigExists(model_cfg_path) THEN "Exception"
                              ELSE "FileNotFoundError", "OmegaConf.load", <<>>)
    /\ UNCHANGED <<argv, args, dirs, files, cfgEnv, output_dir, wave_path, vocoder,
                   model_cfg_path, model_cls, ema_model, ref, audio, stdout>>

\* backbone selection whose last branch falls back to DiT
SelectBackboneFallsBack ==
    /\ pc = "select_backbone"
    /\ IF model_cfg.backbone = "UNetT"
       THEN model_cls' = [cls |-> "UNetT"]
       ELSE model_cls' = [cls |-> "DiT"]
    /\ pc' = After("select_backbone")
    /\ UNCHANGED <<argv, args, dirs, files, cfgEnv, output_dir, wave_path, vocoder,
                   model_cfg_path, model_cfg, ema_model, ref, audio, calls, stdout,
                   error>>

\* lines 98-105
SelectBackbone ==
    /\ pc = "select_backbone"
    /\ IF model_cfg.backbone = "DiT"
       THEN model_cls' = [cls |-> "DiT"] /\ pc' = After("select_backbone") /\ error' = error
       ELSE IF model_cfg.backbone = "UNetT"
       THEN model_cls' = [cls |-> "UNetT"] /\ pc' = After("select_backbone") /\ error' = error
       ELSE /\ model_cls' = model_cls
            /\ Abort("ValueError", "select_backbone",
                     <<"Unknown model backbone: ", model_cfg.backbone>>)
    /\ UNCHANGED <<argv, args, dirs, files, cfgEnv, output_dir, wave_path, vocoder,
                   model_cfg_path, model_cfg, ema_model, ref, audio, calls, stdout>>

\* load_model told the module's vocoder, not the one asked for
LoadModelParamsModuleVocoder ==
    [model_cls |-> model_cls,
     model_cfg |-> model_cfg.arch,
     ckpt_path |-> args.ckpt_file,
     mel_spec_type |-> VOCODER_NAME,
     vocab_file |-> args.vocab_file]

\* lines 110-114: the arguments of load_model
LoadModelParams ==
    [model_cls |-> model_cls,
     model_cfg |-> model_cfg.arch,
     ckpt_path |-> args.ckpt_file,
     mel_spec_type |-> args.vocoder_name,
     vocab_file |-> args.vocab_file]

\* lines 108-115
LoadModel ==
    /\ pc = "load_model"
    /\ stdout' = Append(stdout, <<"Loading model from ", args.ckpt_file>>)
    /\ LET params == LoadModelParams
       IN  \E outcome \in Outcomes :
                IF outcome = "returns"
                THEN /\ ema_model' = Handle("model")
                     /\ calls' = Append(calls, Call("load_model", params, ema_model'))
                     /\ pc' = After("load_model")
                     /\ error' = error
                ELSE /\ ema_model' = ema_model
                     /\ calls' = Append(calls, Call("load_model", params, Raised))
                     /\ Abort("Exception", "load_model", <<>>)
    /\ UNCHANGED <<argv, args, dirs, files, cfgEnv, output_dir, wave_path, vocoder,
                   model_cfg_path, model_cfg, model_cls, ref, audio>>

\* lines 118-119
PreprocessRef ==
    /\ pc = "preprocess"
    /\ stdout' = Append(stdout, <<"Preprocessing reference audio and text">>)
    /\ LET params == [ref_audio_orig |-> args.ref_audio, ref_text |-> args.ref_text]
       IN  \E outcome \in Outcomes :
                IF outcome = "returns"
                THEN /\ ref' = [ref_audio |-> Handle("ref_audio"),
                                ref_text |-> Handle("ref_text")]
                     /\ calls' = Append(calls, Call("preprocess_ref_audio_text", params, ref'))
                     /\ pc' = After("preprocess")
                     /\ error' = error
                ELSE /\ ref' = ref
                     /\ calls' = Append(calls, Call("preprocess_ref_audio_text", params, Raised))
                     /\ Abort("Exception", "preprocess_ref_audio_text", <<>>)
    /\ UNCHANGED <<argv, args, dirs, files, cfgEnv, output_dir, wave_path, vocoder,
                   model_cfg_path, model_cfg, model_cls, ema_model, audio>>

\* lines 124-136: the arguments of infer_process
InferParams ==
    [ref_audio |-> ref.ref_audio,
     ref_text |-> ref.ref_text,
     gen_text |-> args.gen_text,
     model_obj |-> ema_model,
     vocoder |-> vocoder,
     mel_spec_type |-> args.vocoder_name,
     target_rms |-> args.target_rms,
     cross_fade_duration |-> args.cross_fade_duration,
     nfe_step |-> args.nfe_step,
     cfg_strength |-> args.cfg_strength,
     sway_sampling_coef |-> args.sway_sampling_coef,
     speed |-> args.speed,
     fix_duration |-> None]

\* lines 122-137
Infer ==
    /\ pc = "infer"
    /\ stdout' = Append(stdout, <<"Generating speech for: ", args.gen_text>>)
    /\ LET params == InferParams
       IN  \E outcome \in Outcomes :
                IF outcome = "returns"
                THEN /\ audio' = [audio_segment |-> Handle("audio_segment"),
                                  final_sample_rate |-> Handle("final_sample_rate"),
                                  spectrogram |-> Handle("spectrogram")]
                     /\ calls' = Append(calls, Call("infer_process", params, audio'))
                     /\ pc' = After("infer")
                     /\ error' = error
                ELSE /\ audio' = audio
                     /\ calls' = Append(calls, Call("infer_process", params, Raised))
                     /\ Abort("Exception", "infer_process", <<>>)
    /\ UNCHANGED <<argv, args, dirs, files, cfgEnv, output_dir, wave_path, vocoder,
                   model_cfg_path, model_cfg, model_cls, ema_model, ref>>

\* lines 140-144: the audio is written to the output path, which sf.write
\* cannot do when the path is a directory; then the flag decides whether
\* silence is removed
WriteAudio ==
    /\ pc = "write"
    /\ stdout' = Append(stdout, <<"Saving audio to ", PathStr(wave_path)>>)
    /\ LET params == [file_ |-> wave_path,
                      data |-> audio.audio_segment,
                      samplerate |-> audio.final_sample_rate]
       IN  \E outcome \in Outcomes :
                IF outcome = "returns" /\ wave_path \notin dirs
                THEN /\ files' = files \cup {wave_path}
                     /\ calls' = Append(calls, Call("sf.write", params, None))
                     /\ pc' = AfterWrite(args.remove_silence)
                     /\ error' = error
                ELSE /\ files' = files
                     /\ calls' = Append(calls, Call("sf.write", params, Raised))
                     /\ Abort("Exception", "sf.write", <<>>)
    /\ UNCHANGED <<argv, args, dirs, cfgEnv, output_dir, wave_path, vocoder,
                   model_cfg_path, model_cfg, model_cls, ema_model, ref, audio>>

\* lines 145-146
RemoveSilence ==
    /\ pc = "remove_silence"
    /\ stdout' = Append(stdout, <<"Removing silence from generated audio">>)
    /\ LET params == [filename |-> wave_path]
       IN  \E outcome \in Outcomes :
                IF outcome = "returns"
                THEN /\ calls' = Append(calls, Call("remove_silence_for_generated_wav",
                                                    params, None))
                     /\ pc' = "finish"
                     /\ error' = error
                ELSE /\ calls' = Append(calls, Call("remove_silence_for_generated_wav",
                                                    params, Raised))
                     /\ Abort("Exception", "remove_silence_for_generated_wav", <<>>)
    /\ UNCHANGED <<argv, args, dirs, files, cfgEnv, output_dir, wave_path, vocoder,
                   model_cfg_path, model_cfg, model_cls, ema_model, ref, audio>>

\* line 148
Finish ==
    /\ pc = "finish"
    /\ stdout' = Append(stdout, <<"Done! Output saved to ", PathStr(wave_path)>>)
    /\ pc' = "done"
    /\ UNCHANGED <<argv, args, dirs, files, cfgEnv, output_dir, wave_path, vocoder,
                   model_cfg_path, model_cfg, model_cls, ema_model, ref, audio,
                   calls, error>>

\* main(), lines 46-148
Next ==
    \/ ParseArgs
    \/ MakeOutputDir
    \/ LoadVocoder
    \/ ResolveConfigPath
    \/ LoadConfig
    \/ SelectBackbone
    \/ LoadModel
    \/ PreprocessRef
    \/ Infer
    \/ WriteAudio
    \/ RemoveSilence
    \/ Finish

Spec == Init /\ [][Next]_vars

\* the same run over the output flags alone, with every short path text
InitOut ==
    /\ argv \in OutputCommandLines
    /\ pc = "parse_args"
    /\ args = Unbound
    /\ dirs = InitialDirs
    /\ files = {}
    /\ cfgEnv = Unbound
    /\ output_dir = Unbound
    /\ wave_path = Unbound
    /\ vocoder = Unbound
    /\ model_cfg_path = Unbound
    /\ model_cfg = Unbound
    /\ model_cls = Unbound
    /\ ema_model = Unbound
    /\ ref = Unbound
    /\ audio = Unbound
    /\ calls = <<>>
    /\ stdout = <<>>
    /\ error = NoError

SpecOut == InitOut /\ [][Next]_vars

\* main() is one thread of blocking calls, each of which returns or raises:
\* a step that can be taken is taken
FairSpec == Spec /\ WF_vars(Next)

(***************************************************************************)
(* What a state tells of the run so far.                                   *)
(***************************************************************************)
Called(fn) == \E i \in DOMAIN calls : calls[i].fn = fn
Returned(fn) == \E i \in DOMAIN calls : calls[i].fn = fn /\ calls[i].ret # Raised
TimesCalled(fn) == Cardinality({i \in DOMAIN calls : calls[i].fn = fn})
CallOf(fn) == calls[CHOOSE i \in DOMAIN calls : calls[i].fn = fn]
Given(f) == f \in DOMAIN argv
Final == {"done", "aborted"}

\* the outside call a step makes
StepCall(step) ==
    CASE step = "mkdir" -> "Path.mkdir"
      [] step = "load_vocoder" -> "load_vocoder"
      [] step = "load_cfg" -> "OmegaConf.load"
      [] step = "load_model" -> "load_model"
      [] step = "preprocess" -> "preprocess_ref_audio_text"
      [] step = "infer" -> "infer_process"
      [] step = "write" -> "sf.write"
      [] step = "remove_silence" -> "remove_silence_for_generated_wav"

Started(step) ==
    CASE step = "parse_args" -> args # Unbound \/ error.at = "parse_args"
      [] step = "resolve_cfg" -> cfgEnv # Unbound
      [] step = "select_backbone" -> model_cls # Unbound \/ error.at = "select_backbone"
      [] OTHER -> Called(StepCall(step))

Completed(step) ==
    CASE step = "parse_args" -> args # Unbound
      [] step = "resolve_cfg" -> model_cfg_path # Unbound /\ model_cfg_path # None
      [] step = "select_backbone" -> model_cls # Unbound
      [] OTHER -> Returned(StepCall(step))

\* no step of the order has started before every step ahead of it completed
InOrder(order) ==
    \A i, j \in DOMAIN order : i < j /\ Started(order[j]) => Completed(order[i])

(***************************************************************************)
(* C1.  The steps of main() and their order.                               *)
(***************************************************************************)
ClaimedOrder == <<"parse_args", "resolve_cfg", "load_vocoder", "load_model",
                  "preprocess", "infer", "write", "remove_silence">>
CodeOrder == <<"parse_args", "load_vocoder", "resolve_cfg", "load_model",
               "preprocess", "infer", "write", "remove_silence">>

\* C1 as claimed: in every run the steps occur in the order parse arguments,
\* resolve the model config path, load the vocoder, load the model,
\* preprocess, infer, write, post-process, none starting before the one
\* ahead of it completed; so the config path is resolved before load_vocoder
\* is called.
C1_ClaimedOrder == InOrder(ClaimedOrder)

\* C1 as amended: in every run the steps occur in the order parse arguments,
\* load the vocoder, resolve the model config path, load the model,
\* preprocess, infer, write, post-process, none starting before the one
\* ahead of it completed; so load_vocoder has returned before the config
\* path is resolved.
C1_CodeOrder == InOrder(CodeOrder)

\* a run that took every step, the optional one included
C1_FullRun == pc = "done" /\ Returned("remove_silence_for_generated_wav")

(***************************************************************************)
(* C3.  A vocoder name outside the choices.                                *)
(***************************************************************************)
BadVocoder == Given("vocoder_name") /\ argv["vocoder_name"] \notin {"vocos", "bigvgan"}

\* C3: a --vocoder_name other than vocos or bigvgan is rejected by argument
\* parsing before any side effect: no directory is created, nothing is
\* called, printed or written, and the run ends in SystemExit.
C3_BadVocoderRejected ==
    BadVocoder =>
        /\ dirs = InitialDirs
        /\ files = {}
        /\ calls = <<>>
        /\ stdout = <<>>
        /\ args = Unbound
        /\ pc \in {"parse_args", "aborted"}
        /\ pc = "aborted" => error.type = "SystemExit" /\ error.at = "parse_args"

\* a run that was given such a name and has ended
C3_Rejected == BadVocoder /\ pc = "aborted"

(***************************************************************************)
(* C4.  A backbone that is neither DiT nor UNetT.                          *)
(***************************************************************************)
UnknownBackbone == model_cfg # Unbound /\ model_cfg.backbone \notin {"DiT", "UNetT"}

\* C4: when the configuration names a backbone other than DiT and UNetT the
\* run ends in an uncaught ValueError at backbone selection: load_model,
\* preprocess_ref_audio_text, infer_process and the write are never
\* reached, and no earlier step is run again.
C4_UnknownBackboneAborts ==
    UnknownBackbone =>
        /\ pc \in {"select_backbone", "aborted"}
        /\ pc = "aborted" => error.type = "ValueError" /\ error.at = "select_backbone"
        /\ model_cls = Unbound
        /\ ~Called("load_model")
        /\ ~Called("preprocess_ref_audio_text")
        /\ ~Called("infer_process")
        /\ ~Called("sf.write")
        /\ files = {}
        /\ TimesCalled("load_vocoder") = 1
        /\ TimesCalled("OmegaConf.load") = 1

\* a run that ended at backbone selection
C4_Aborted == UnknownBackbone /\ pc = "aborted" /\ error.type = "ValueError"

(***************************************************************************)
(* C2.  The output path.                                                   *)
(***************************************************************************)
\* the text a flag has on the command line, or its default
TextOf(f) == IF Given(f) THEN argv[f] ELSE Default(f)

\* the file named by text, under the directory named by dirText
Under(dirText, text) ==
    [root |-> ParsePath(dirText).root,
     parts |-> ParsePath(dirText).parts \o ParsePath(text).parts]

\* the path written is the one removed of silence and the one reported
SamePathThroughout ==
    /\ Called("sf.write") =>
            \E i \in DOMAIN stdout :
                stdout[i] = <<"Saving audio to ", PathStr(CallOf("sf.write").args.file_)>>
    /\ Called("remove_silence_for_generated_wav") =>
            CallOf("remove_silence_for_generated_wav").args.filename
                = CallOf("sf.write").args.file_
    /\ pc = "done" =>
            stdout[Len(stdout)]
                = <<"Done! Output saved to ", PathStr(CallOf("sf.write").args.file_)>>

WritesUnderOutputDir ==
    Called("sf.write") =>
        CallOf("sf.write").args.file_ = Under(TextOf("output_dir"), TextOf("output_file"))

\* C2 as claimed: for every pair of --output_dir and --output_file, a run
\* that reaches the write writes to the file name appended under the output
\* directory, and that path is the one passed to
\* remove_silence_for_generated_wav and reported in the final message.
C2_AlwaysUnderOutputDir ==
    /\ Returned("sf.write") => files = {Under(TextOf("output_dir"), TextOf("output_file"))}
    /\ SamePathThroughout

\* C2 as amended: for every --output_dir and every --output_file that does
\* not begin with a separator, a run that reaches the write writes to the
\* file name appended under the output directory; and for every pair the
\* path written is the one passed to remove_silence_for_generated_wav and
\* reported in the final message.
C2_RelativeUnderOutputDir ==
    /\ (TextOf("output_file") = <<>> \/ Head(TextOf("output_file")) # Sep) => WritesUnderOutputDir
    /\ SamePathThroughout

\* a finished run that wrote a named file under a named directory and
\* removed its silence
C2_WroteUnderDir ==
    /\ pc = "done"
    /\ Returned("remove_silence_for_generated_wav")
    /\ Given("output_dir") /\ ParsePath(argv["output_dir"]).parts # <<>>
    /\ Given("output_file") /\ ParsePath(argv["output_file"]).parts # <<>>
    /\ ParsePath(argv["output_file"]).root = <<>>
    /\ wave_path \in files

(***************************************************************************)
(* C6.  Silence removal.                                                   *)
(***************************************************************************)
\* C6: in a run that got past the write, remove_silence_for_generated_wav is
\* called if and only if --remove_silence was given; it is called at most
\* once, only right after a write that returned, and on the path written;
\* without the flag the write is the last call of the run.
C6_RemoveSilenceIffFlag ==
    /\ TimesCalled("remove_silence_for_generated_wav") <= 1
    /\ Called("remove_silence_for_generated_wav") =>
            /\ Given("remove_silence")
            /\ Len(calls) >= 2
            /\ calls[Len(calls)].fn = "remove_silence_for_generated_wav"
            /\ calls[Len(calls) - 1].fn = "sf.write"
            /\ calls[Len(calls) - 1].ret = None
            /\ calls[Len(calls)].args.filename = calls[Len(calls) - 1].args.file_
            /\ calls[Len(calls)].args.filename \in files
    /\ pc \in {"finish", "done"} =>
            (Returned("remove_silence_for_generated_wav") <=> Given("remove_silence"))
    /\ (Returned("sf.write") /\ Given("remove_silence")) =>
            pc = "remove_silence" \/ Called("remove_silence_for_generated_wav")
    /\ (Called("sf.write") /\ ~Given("remove_silence")) =>
            calls[Len(calls)].fn = "sf.write"

\* a finished run that removed silence
C6_Removed == pc = "done" /\ Given("remove_silence") /\ TimesCalled("remove_silence_for_generated_wav") = 1

(***************************************************************************)
(* C9.  One vocoder, one model.                                            *)
(***************************************************************************)
\* C9: the vocoder name given to load_vocoder is the mel_spec_type given to
\* load_model and to infer_process; infer_process gets the vocoder that
\* load_vocoder returned and the model that load_model returned for the
\* parsed --ckpt_file and --vocab_file.
C9_OneVocoderOneModel ==
    /\ Called("load_model") =>
            /\ CallOf("load_model").args.mel_spec_type = CallOf("load_vocoder").args.vocoder_name
            /\ CallOf("load_model").args.ckpt_path = TextOf("ckpt_file")
            /\ CallOf("load_model").args.vocab_file = TextOf("vocab_file")
    /\ Called("infer_process") =>
            /\ CallOf("infer_process").args.mel_spec_type = CallOf("load_vocoder").args.vocoder_name
            /\ CallOf("infer_process").args.mel_spec_type = CallOf("load_model").args.mel_spec_type
            /\ CallOf("infer_process").args.vocoder = CallOf("load_vocoder").ret
            /\ CallOf("infer_process").args.model_obj = CallOf("load_model").ret
            /\ CallOf("load_vocoder").ret # Raised
            /\ CallOf("load_model").ret # Raised

\* inference ran with the vocoder that is not the default
C9_InferredWithBigvgan ==
    /\ Returned("infer_process")
    /\ Given("vocoder_name") /\ argv["vocoder_name"] = "bigvgan"

(***************************************************************************)
(* C10.  The output directory and the audio file.                          *)
(***************************************************************************)
\* the directory --output_dir names and every directory above it exist
OutputDirExists ==
    LET d == ParsePath(TextOf("output_dir"))
    IN  \A k \in 0..Len(d.parts) : [root |-> d.root, parts |-> SubSeq(d.parts, 1, k)] \in dirs

\* the directory is made first: with parents, an existing one being no
\* error, before anything else is called or printed
MadeFirst ==
    /\ (calls # <<>> \/ stdout # <<>>) =>
            /\ calls[1].fn = "Path.mkdir"
            /\ calls[1].args = [path |-> ParsePath(TextOf("output_dir")),
                                parents |-> TRUE, exist_ok |-> TRUE]
    /\ (calls # <<>> /\ ParsePath(TextOf("output_dir")) \in InitialDirs) => calls[1].ret = None
    /\ pc \notin {"parse_args", "mkdir"} /\ args # Unbound => calls # <<>>

\* the audio file is there only once inference returned
AudioOnlyAfterInference ==
    /\ files # {} => Returned("infer_process") /\ Returned("sf.write")
    /\ files \subseteq {wave_path}

\* C10 as claimed: the directory is made right after argument parsing, so
\* every run that passes argument parsing leaves it existing, the runs that
\* abort included; the audio file exists only if inference returned.
C10_DirAfterEveryParsedRun ==
    /\ MadeFirst
    /\ (pc \in Final /\ args # Unbound) => OutputDirExists
    /\ AudioOnlyAfterInference

\* C10 as amended: the directory is made right after argument parsing, so
\* every run in which that mkdir returns leaves it existing, the runs that
\* abort later included; the audio file exists only if inference returned.
C10_DirAfterMkdirReturned ==
    /\ MadeFirst
    /\ Returned("Path.mkdir") => OutputDirExists
    /\ AudioOnlyAfterInference

\* a run that made runs/day1 and then aborted on the backbone
C10_AbortedWithDir ==
    /\ pc = "aborted" /\ error.at = "select_backbone"
    /\ Len(ParsePath(TextOf("output_dir")).parts) = 2
    /\ OutputDirExists

(***************************************************************************)
(* C5.  Defaults and overrides.                                            *)
(***************************************************************************)
\* the defaults the claim lists (the three texts it does not list are the
\* module's)
ClaimedDefault(f) ==
    CASE f = "model" -> "F5TTS_Base"
      [] f = "vocoder_name" -> "vocos"
      [] f = "vocab_file" -> "model/vocab.txt"
      [] f = "ckpt_file" -> "model/model_500000.pt"
      [] f = "speed" -> "1.0"
      [] f = "nfe_step" -> 32
      [] f = "cfg_strength" -> "2.0"
      [] f = "target_rms" -> "0.1"
      [] f = "cross_fade_duration" -> "0.15"
      [] f = "sway_sampling_coef" -> "-1.0"
      [] f = "remove_silence" -> FALSE
      [] f = "output_dir" -> <<"outputs">>
      [] f = "output_file" -> <<"synthesized_speech_huong_giang_4.wav">>
      [] f = "ref_audio" -> REF_AUDIO
      [] f = "ref_text" -> REF_TEXT
      [] f = "gen_text" -> GEN_TEXT

\* what flag f should stand at: its own value when supplied, else its default
Expected(f) == IF Given(f) THEN Converted(f, argv[f]) ELSE ClaimedDefault(f)

\* C5: every parameter handed to a call is the value of its own flag when
\* that flag was supplied and the flag's default otherwise; so a run with
\* no flags hands over only defaults (and writes to
\* outputs/synthesized_speech_huong_giang_4.wav), and a supplied flag
\* changes no parameter but its own.
C5_DefaultsAndOverrides ==
    /\ args # Unbound => \A f \in Flags : args[f] = Expected(f)
    /\ Called("Path.mkdir") =>
            CallOf("Path.mkdir").args.path = ParsePath(Expected("output_dir"))
    /\ Called("load_vocoder") =>
            CallOf("load_vocoder").args.vocoder_name = Expected("vocoder_name")
    /\ Called("OmegaConf.load") =>
            CallOf("OmegaConf.load").args.file_.rel = <<"configs/", Expected("model"), ".yaml">>
    /\ Called("load_model") =>
            /\ CallOf("load_model").args.ckpt_path = Expected("ckpt_file")
            /\ CallOf("load_model").args.mel_spec_type = Expected("vocoder_name")
            /\ CallOf("load_model").args.vocab_file = Expected("vocab_file")
    /\ Called("preprocess_ref_audio_text") =>
            /\ CallOf("preprocess_ref_audio_text").args.ref_audio_orig = Expected("ref_audio")
            /\ CallOf("preprocess_ref_audio_text").args.ref_text = Expected("ref_text")
    /\ Called("infer_process") =>
            LET a == CallOf("infer_process").args
            IN  /\ a.gen_text = Expected("gen_text")
                /\ a.mel_spec_type = Expected("vocoder_name")
                /\ a.target_rms = Expected("target_rms")
                /\ a.cross_fade_duration = Expected("cross_fade_duration")
                /\ a.nfe_step = Expected("nfe_step")
                /\ a.cfg_strength = Expected("cfg_strength")
                /\ a.sway_sampling_coef = Expected("sway_sampling_coef")
                /\ a.speed = Expected("speed")
    /\ Called("sf.write") =>
            /\ CallOf("sf.write").args.file_
                    = PathJoin(ParsePath(Expected("output_dir")), Expected("output_file"))
            /\ (~Given("output_dir") /\ ~Given("output_file")) =>
                    PathStr(CallOf("sf.write").args.file_)
                        = <<"outputs", "/", "synthesized_speech_huong_giang_4.wav">>
    /\ Called("remove_silence_for_generated_wav") => Expected("remove_silence")

\* a finished run that was given no flag
C5_DefaultRun == DOMAIN argv = {} /\ pc = "done"

(***************************************************************************)
(* C7.  Where the model configuration is read from.                        *)
(***************************************************************************)
\* C7: when the packaged configuration is missing and configs/<model>.yaml
\* lies in the current directory, the local file is the one loaded; when
\* neither exists the run ends in FileNotFoundError "Could not find model
\* config for <model>" and OmegaConf.load is never called.
C7_FallsBackToLocal ==
    cfgEnv # Unbound /\ ~cfgEnv.package =>
        IF cfgEnv.cwd
        THEN /\ model_cfg_path = LocalPath(args.model)
             /\ Called("OmegaConf.load") =>
                    CallOf("OmegaConf.load").args.file_ = LocalPath(args.model)
        ELSE /\ ~Called("OmegaConf.load")
             /\ pc = "aborted"
             /\ error.type = "FileNotFoundError"
             /\ error.msg = <<"Could not find model config for ", args.model>>

(***************************************************************************)
(* C8.  Termination.                                                       *)
(***************************************************************************)
StepCalls == {"Path.mkdir", "load_vocoder", "os.path.exists", "OmegaConf.load",
              "load_model", "preprocess_ref_audio_text", "infer_process", "sf.write",
              "remove_silence_for_generated_wav"}

\* no call is made twice, and no call follows one that raised
NothingRetried ==
    /\ \A fn \in StepCalls : TimesCalled(fn) <= 1
    /\ \A i \in DOMAIN calls : calls[i].fn \in StepCalls
    /\ \A i \in DOMAIN calls : calls[i].ret = Raised => i = Len(calls) /\ pc = "aborted"

\* the two ways a run ends
EndsDoneOrAborted ==
    /\ pc = "done" => error = NoError /\ wave_path \in files /\ Returned("sf.write")
    /\ pc = "aborted" <=> error # NoError
    /\ pc \in Final <=> ~ENABLED Next

\* C8: every run ends, done with the output written or aborted by its
\* first error, and a run takes no step twice.
C8_TerminatesOnce == <>(pc \in Final) /\ [](NothingRetried /\ EndsDoneOrAborted)

\* a run that aborted when inference raised
C8_AbortedLate == pc = "aborted" /\ error.at = "infer_process" /\ TimesCalled("infer_process") = 1
====
